---- MODULE Spec2Model ----
(***************************************************************************)
(* A model of ModrinthAPI (src/Modrinth.js): resolving a mod against the   *)
(* registry, filtering its versions, streaming the artifact to the staging *)
(* directory, moving it into the mods folder and keeping the JSON manifest.*)
(*                                                                         *)
(* Strings are sequences of one-character strings, so that                 *)
(* String.prototype.includes, JSON.stringify and JSON.parse are computed.  *)
(* A JavaScript object holding the manifest is the sequence of its own     *)
(* properties <<key, value>> in property order.                            *)
(***************************************************************************)
EXTENDS Integers, Sequences, FiniteSets, TLC

(***************************************************************************)
(* Strings of the model.                                                   *)
(***************************************************************************)
Q  == "\""
BS == "\\"
NL == "\n"
SP == " "

create  == <<"c", "r", "e", "a", "t", "e">>
jei     == <<"j", "e", "i">>
nomod   == <<"n", "o">>
quoted  == <<"a", Q, "b", BS>>
proto   == <<"_", "_", "p", "r", "o", "t", "o", "_", "_">>

g118    == <<"1", ".", "1", "8">>
g119    == <<"1", ".", "1", "9">>
v050    == <<"0", ".", "5">>
v051f   == <<"0", ".", "5", "-", "f">>
v9      == <<"9">>
forge   == <<"f", "o", "r", "g", "e">>
fabric  == <<"f", "a", "b">>

(***************************************************************************)
(* JavaScript objects with string values: own properties in order.         *)
(***************************************************************************)
RECURSIVE IndexOfKey(_, _, _)
IndexOfKey(obj, key, i) ==
    IF i > Len(obj) THEN 0
    ELSE IF obj[i][1] = key THEN i
    ELSE IndexOfKey(obj, key, i + 1)

HasOwn(obj, key) == IndexOfKey(obj, key, 1) # 0

\* Object.keys(obj), also the order of for...in over a parsed manifest
ObjectKeys(obj) == [i \in 1..Len(obj) |-> obj[i][1]]

Undefined == <<"undefined">>

\* obj[key] read as a string: the own value, else not a string of the manifest
GetProp(obj, key) ==
    IF HasOwn(obj, key) THEN obj[IndexOfKey(obj, key, 1)][2] ELSE Undefined

\* CreateDataProperty, as JSON.parse defines a member: overwrite in place or append
DefineOwn(obj, key, val) ==
    IF HasOwn(obj, key)
    THEN [obj EXCEPT ![IndexOfKey(obj, key, 1)] = <<key, val>>]
    ELSE Append(obj, <<key, val>>)

\* modsData[modName] = version: an ordinary [[Set]] on an object whose prototype
\* is Object.prototype. "__proto__" not yet an own property reaches the
\* accessor of Object.prototype, whose setter ignores a string.
PutProp(obj, key, val) ==
    IF HasOwn(obj, key) THEN DefineOwn(obj, key, val)
    ELSE IF key = proto THEN obj
    ELSE Append(obj, <<key, val>>)

(***************************************************************************)
(* JSON.stringify(obj, null, 2) and JSON.parse for such objects.           *)
(***************************************************************************)
RECURSIVE EscapeFrom(_, _)
EscapeFrom(s, i) ==
    IF i > Len(s) THEN <<>>
    ELSE (IF s[i] = Q \/ s[i] = BS THEN <<BS, s[i]>> ELSE <<s[i]>>)
         \o EscapeFrom(s, i + 1)

QuoteJSON(s) == <<Q>> \o EscapeFrom(s, 1) \o <<Q>>

RECURSIVE Members(_, _)
Members(obj, i) ==
    IF i > Len(obj) THEN <<>>
    ELSE <<NL, SP, SP>> \o QuoteJSON(obj[i][1]) \o <<":", SP>> \o QuoteJSON(obj[i][2])
         \o (IF i < Len(obj) THEN <<",">> ELSE <<>>)
         \o Members(obj, i + 1)

Stringify(obj) ==
    IF obj = <<>> THEN <<"{", "}">>
    ELSE <<"{">> \o Members(obj, 1) \o <<NL, "}">>

Fail == [ok |-> FALSE]

RECURSIVE SkipWs(_, _)
SkipWs(t, i) ==
    IF i <= Len(t) /\ t[i] \in {SP, NL} THEN SkipWs(t, i + 1) ELSE i

\* the characters of a string literal from position i (after the opening quote)
RECURSIVE ParseChars(_, _, _)
ParseChars(t, i, acc) ==
    IF i > Len(t) THEN Fail
    ELSE IF t[i] = Q THEN [ok |-> TRUE, val |-> acc, next |-> i + 1]
    ELSE IF t[i] = NL THEN Fail
    ELSE IF t[i] = BS
         THEN IF i + 1 <= Len(t) /\ t[i + 1] \in {Q, BS}
              THEN ParseChars(t, i + 2, Append(acc, t[i + 1]))
              ELSE Fail
    ELSE ParseChars(t, i + 1, Append(acc, t[i]))

ParseString(t, i) ==
    IF i <= Len(t) /\ t[i] = Q THEN ParseChars(t, i + 1, <<>>) ELSE Fail

\* members of an object from position i (at a key), acc the properties so far
RECURSIVE ParseMembers(_, _, _)
ParseMembers(t, i, acc) ==
    LET k == ParseString(t, i) IN
    IF ~k.ok THEN Fail ELSE
    LET c == SkipWs(t, k.next) IN
    IF ~(c <= Len(t) /\ t[c] = ":") THEN Fail ELSE
    LET v == ParseString(t, SkipWs(t, c + 1)) IN
    IF ~v.ok THEN Fail ELSE
    LET e    == SkipWs(t, v.next)
        acc2 == DefineOwn(acc, k.val, v.val)
    IN  IF e > Len(t) THEN Fail
        ELSE IF t[e] = "," THEN ParseMembers(t, SkipWs(t, e + 1), acc2)
        ELSE IF t[e] = "}" THEN [ok |-> TRUE, val |-> acc2, next |-> e + 1]
        ELSE Fail

\* JSON.parse(data): ok with the object, or not ok (a SyntaxError is thrown)
ParseJSON(t) ==
    LET s == SkipWs(t, 1) IN
    IF ~(s <= Len(t) /\ t[s] = "{") THEN Fail ELSE
    LET m == SkipWs(t, s + 1)
        r == IF m <= Len(t) /\ t[m] = "}"
             THEN [ok |-> TRUE, val |-> <<>>, next |-> m + 1]
             ELSE ParseMembers(t, m, <<>>)
    IN  IF r.ok /\ SkipWs(t, r.next) > Len(t) THEN [ok |-> TRUE, val |-> r.val]
        ELSE Fail

(***************************************************************************)
(* The manifest store.  The file is absent (NoFile) or holds text.         *)
(***************************************************************************)
NoFile == <<"ENOENT">>

\* loadModsData(): {} when the file does not exist, else JSON.parse of it
LoadModsData(file) ==
    IF file = NoFile THEN [ok |-> TRUE, val |-> <<>>] ELSE ParseJSON(file)

\* saveModInfo(modName, version) as one synchronous call: the file it leaves
SaveModInfo(file, modName, version) ==
    LET l == LoadModsData(file) IN
    IF l.ok THEN Stringify(PutProp(l.val, modName, version)) ELSE file

(***************************************************************************)
(* The registry (api.modrinth.com), as the three GET endpoints answer.     *)
(***************************************************************************)
fc1 == <<"c", "1">>
fc2 == <<"c", "2">>

\* GET /v2/search?query=<name>&limit=10: response.data.hits
SearchHits(query) ==
    IF query = create THEN <<[project_id |-> "pc"], [project_id |-> "pj"]>>
    ELSE IF query = jei THEN <<[project_id |-> "pj"]>>
    ELSE <<>>

\* GET /v2/project/<id>/version: response.data, in the registry's order;
\* files[0] of each version is given as filename
ProjectVersions(projectId) ==
    IF projectId = "pc"
    THEN << [id |-> "c2", version_number |-> v051f, game_versions |-> <<g119>>,
             loaders |-> <<forge>>, filename |-> fc2],
            [id |-> "c1", version_number |-> v050, game_versions |-> <<g118, g119>>,
             loaders |-> <<forge, fabric>>, filename |-> fc1] >>
    ELSE << [id |-> "j2", version_number |-> v9, game_versions |-> <<g119>>,
             loaders |-> <<forge>>, filename |-> jei],
            [id |-> "j1", version_number |-> v050, game_versions |-> <<g118, g119>>,
             loaders |-> <<forge>>, filename |-> jei] >>

(***************************************************************************)
(* Compatibility filter of getmod.                                         *)
(***************************************************************************)
\* Array.prototype.includes / String.prototype.includes of one character
Includes(arr, x) == \E i \in 1..Len(arr) : arr[i] = x

IsSpecificStartsWith(version) == Len(version) > 0 /\ version[1] = "-"

\* isSpecificModVersion(version): version.includes('-')
IsSpecificModVersion(version) == Includes(version, "-")

\* Array.prototype.filter: the elements that pass, in order
RECURSIVE FilterFrom(_, _, _, _)
FilterFrom(versions, i, target, loader) ==
    IF i > Len(versions) THEN <<>>
    ELSE LET v    == versions[i]
             keep == IF IsSpecificModVersion(target)
                     THEN v.version_number = target
                     ELSE Includes(v.game_versions, target) /\ Includes(v.loaders, loader)
         IN  (IF keep THEN <<v>> ELSE <<>>) \o FilterFrom(versions, i + 1, target, loader)

\* compatibleVersions of getmod, lines 68-76
CompatibleVersions(versions, target, loader) == FilterFrom(versions, 1, target, loader)

(***************************************************************************)
(* State.                                                                  *)
(***************************************************************************)
VARIABLES
    manifest,       \* this.modsDataFile on disk: NoFile or its text
    modsDir,        \* minecraftModsFolder: filename -> content
    stagingExists,  \* whether path.join(__dirname, 'downloads') exists
    staging,        \* the staging directory: filename -> content
    pc,             \* where the caller of download / update stands
    call,           \* the call in progress or last made, with its arguments
    modsData,       \* update's modsData, loaded once before its loop
    idx,            \* position of update's loop in the keys of modsData
    latest,         \* latestVersion of the call (versions[0])
    stream,         \* the response stream piped into the writer
    outcome,        \* how the last call ended
    log,            \* what the call has done so far: <<kind, modName>>
    calls,          \* calls made so far
    prev,           \* the call made before this one, and how it ended
    fq,             \* a getmod filter query and its result
    rt,             \* a saveModInfo / loadModsData round trip
    savers          \* processes running saveModInfo on the same manifest

fsVars     == <<manifest, modsDir, stagingExists, staging>>
callerVars == <<pc, call, modsData, idx, latest, stream, outcome, log, calls, prev>>
vars       == <<manifest, modsDir, stagingExists, staging,
                pc, call, modsData, idx, latest, stream, outcome, log, calls, prev,
                fq, rt, savers>>

MaxCalls       == 3
ArtifactChunks == 2
MaxVersions    == 2

Procs == {"p1", "p2"}

NoCall    == [op |-> "none"]
NoVersion == [id |-> "none"]

InitFs ==
    /\ manifest = NoFile
    /\ modsDir = <<>>
    /\ stagingExists = FALSE
    /\ staging = <<>>

InitCaller ==
    /\ pc = "idle"
    /\ call = NoCall
    /\ modsData = <<>>
    /\ idx = 0
    /\ latest = NoVersion
    /\ stream = "none"
    /\ outcome = "none"
    /\ log = {}
    /\ calls = 0
    /\ prev = [call |-> NoCall, outcome |-> "none"]

InitFq == fq = [phase |-> "none"]

InitRt == rt = [phase |-> "idle"]

InitSavers == savers = [p \in Procs |-> [pc |-> "idle"]]

(***************************************************************************)
(* Directories: a function from the names of the files present to their    *)
(* content, [ver |-> the version id fetched, bytes |-> chunks written].    *)
(***************************************************************************)
WriteFile(dir, f, c) == [x \in DOMAIN dir \cup {f} |-> IF x = f THEN c ELSE dir[x]]

RemoveFile(dir, f) == [x \in DOMAIN dir \ {f} |-> dir[x]]

RenameFirst(dir, stg) ==
    LET f == CHOOSE x \in DOMAIN stg : TRUE IN
    [mods |-> WriteFile(dir, f, stg[f]), staging |-> RemoveFile(stg, f)]

\* lines 238-243: every file readdirSync lists is renamed into the mods folder,
\* replacing a file of the same name there, and is gone from staging
RenameAll(dir, stg) ==
    [mods    |-> [x \in DOMAIN dir \cup DOMAIN stg |->
                    IF x \in DOMAIN stg THEN stg[x] ELSE dir[x]],
     staging |-> <<>>]

(***************************************************************************)
(* download and update.  Each action is the synchronous code that runs     *)
(* from one await to the next.                                             *)
(***************************************************************************)
DownloadNames == {create, jei, nomod}
DownloadTargets == {g118, v051f}
UpdateTargets == {g118, g119}
Loaders == {forge, fabric}

FsKinds == {"mkdir", "unlink", "create", "write", "rename", "save"}

\* the mod, target and loader getmod is resolving
CurMod    == IF call.op = "update" THEN ObjectKeys(modsData)[idx] ELSE call.modName
CurTarget == IF call.op = "update" THEN call.gameVersion ELSE call.target
CurLoader == IF call.op = "update" THEN forge ELSE call.loader

Logged(kinds, modName) == {<<k, modName>> : k \in kinds}

SearchOutcomeUnchecked(hits) == IF Len(hits) = 0 THEN "TypeError" ELSE "found"

\* lines 61-63: if (mods.length === 0) throw new Error(`Mod ${modName} not found.`)
SearchOutcome(hits) == IF Len(hits) = 0 THEN "NotFound" ELSE "found"

IsStaleAlways(latestVersion, installedVersion) == TRUE

\* line 146: latestVersion.version_number !== installedVersion
IsStale(latestVersion, installedVersion) ==
    latestVersion.version_number # installedVersion

ContinueAfterError(kind) ==
    /\ outcome' = kind
    /\ stream' = "none"
    /\ IF call.op = "update" /\ idx < Len(modsData)
       THEN /\ pc' = "search"
            /\ idx' = idx + 1
            /\ log' = log \cup {<<"search", ObjectKeys(modsData)[idx + 1]>>}
       ELSE /\ pc' = "idle"
            /\ UNCHANGED <<idx, log>>

\* a throw inside the try of download (lines 98-106) or of update (lines
\* 135-154): catch (error) { throw error; } ends the call, and update's loop
Abort(kind) ==
    /\ pc' = "idle"
    /\ outcome' = kind
    /\ stream' = "none"
    /\ UNCHANGED <<idx, log>>

\* update's loop goes on to the next key of modsData, or update returns;
\* download returns
NextOrReturn(lg) ==
    IF call.op = "update" /\ idx < Len(modsData)
    THEN /\ pc' = "search"
         /\ idx' = idx + 1
         /\ log' = lg \cup {<<"search", ObjectKeys(modsData)[idx + 1]>>}
         /\ UNCHANGED <<outcome, stream>>
    ELSE /\ pc' = "idle"
         /\ outcome' = "ok"
         /\ stream' = "none"
         /\ idx' = idx
         /\ log' = lg

\* download(modName, gameVersionOrModVersion, loader): up to the search request
CallDownload(modName, target, loader) ==
    /\ pc = "idle"
    /\ calls < MaxCalls
    /\ calls' = calls + 1
    /\ prev' = [call |-> call, outcome |-> outcome]
    /\ call' = [op |-> "download", modName |-> modName, target |-> target,
                loader |-> loader]
    /\ modsData' = <<>>
    /\ idx' = 0
    /\ latest' = NoVersion
    /\ stream' = "none"
    /\ outcome' = "pending"
    /\ log' = {<<"search", modName>>}
    /\ pc' = "search"
    /\ UNCHANGED <<fsVars, fq, rt, savers>>

\* update(minecraftModsFolder, gameVersion), lines 136-143: up to the first
\* search request, or the return when the manifest is empty
CallUpdate(gameVersion) ==
    /\ pc = "idle"
    /\ calls < MaxCalls
    /\ calls' = calls + 1
    /\ prev' = [call |-> call, outcome |-> outcome]
    /\ call' = [op |-> "update", gameVersion |-> gameVersion]
    /\ latest' = NoVersion
    /\ stream' = "none"
    /\ LET l == LoadModsData(manifest) IN
       IF ~l.ok
       THEN /\ pc' = "idle" /\ outcome' = "SyntaxError"
            /\ modsData' = <<>> /\ idx' = 0 /\ log' = {}
       ELSE IF Len(ObjectKeys(l.val)) = 0
       THEN /\ pc' = "idle" /\ outcome' = "ok"
            /\ modsData' = <<>> /\ idx' = 0 /\ log' = {}
       ELSE /\ pc' = "search" /\ outcome' = "pending"
            /\ modsData' = l.val /\ idx' = 1
            /\ log' = {<<"search", ObjectKeys(l.val)[1]>>}
    /\ UNCHANGED <<fsVars, fq, rt, savers>>

\* a request to the registry fails: axios rejects, the call rethrows
RequestFails ==
    /\ pc \in {"search", "versions", "versionData", "streamRequest"}
    /\ Abort("UpstreamError")
    /\ UNCHANGED <<fsVars, call, modsData, latest, calls, prev, fq, rt, savers>>

\* searchMods answers, lines 60-66: not found, or the version list is requested
SearchResponds ==
    /\ pc = "search"
    /\ IF SearchOutcome(SearchHits(CurMod)) # "found"
       THEN Abort(SearchOutcome(SearchHits(CurMod)))
       ELSE /\ pc' = "versions"
            /\ log' = log \cup {<<"versions", CurMod>>}
            /\ UNCHANGED <<outcome, stream, idx>>
    /\ UNCHANGED <<fsVars, call, modsData, latest, calls, prev, fq, rt, savers>>

\* mods[0].project_id
Project(modName) == SearchHits(modName)[1].project_id

\* deleteOldMod(modName, minecraftModsFolder): the mods folder it leaves.  The
\* path unlinked is path.join(minecraftModsFolder, <the manifest key>).
DeleteOldMod(dir, file, modName) ==
    LET data == LoadModsData(file).val IN
    IF HasOwn(data, modName) /\ modName \in DOMAIN dir
    THEN RemoveFile(dir, modName)
    ELSE dir

SaveRegardless(file, installed, modName, version) ==
    SaveModInfo(file, modName, version)

\* lines 102-103 and 148-149: await this.installMod(...); this.saveModInfo(...).
\* The manifest after them: saved only when installMod did not throw.
SaveAfterInstall(file, installed, modName, version) ==
    IF installed THEN SaveModInfo(file, modName, version) ELSE file

\* getModVersions answers, lines 66-82, then download's lines 100-102 or
\* update's lines 144-148, and installMod up to the request of downloadMod
\* (lines 231-236 and 255)
VersionsRespond ==
    /\ pc = "versions"
    /\ LET cv == CompatibleVersions(ProjectVersions(Project(CurMod)), CurTarget, CurLoader) IN
       IF cv = <<>>
       THEN /\ Abort("NoCompatibleVersion")
            /\ UNCHANGED <<latest, modsDir, stagingExists>>
       ELSE IF call.op = "update" /\ ~IsStale(cv[1], GetProp(modsData, CurMod))
       THEN /\ latest' = cv[1]
            /\ NextOrReturn(log)
            /\ UNCHANGED <<modsDir, stagingExists>>
       ELSE IF call.op = "update" /\ ~LoadModsData(manifest).ok
       THEN /\ Abort("SyntaxError")
            /\ UNCHANGED <<latest, modsDir, stagingExists>>
       ELSE /\ latest' = cv[1]
            /\ modsDir' = IF call.op = "update"
                          THEN DeleteOldMod(modsDir, manifest, CurMod)
                          ELSE modsDir
            /\ stagingExists' = TRUE
            /\ log' = log \cup Logged({"versionData"}, CurMod)
                          \cup (IF modsDir' # modsDir THEN Logged({"unlink"}, CurMod) ELSE {})
                          \cup (IF ~stagingExists THEN Logged({"mkdir"}, CurMod) ELSE {})
            /\ pc' = "versionData"
            /\ UNCHANGED <<outcome, stream, idx>>
    /\ UNCHANGED <<manifest, staging, call, modsData, calls, prev, fq, rt, savers>>

\* GET /v2/version/<id> answers, lines 256-261: the write stream creates (or
\* truncates) the file in staging, and the artifact is requested
VersionDataResponds ==
    /\ pc = "versionData"
    /\ staging' = WriteFile(staging, latest.filename, [ver |-> latest.id, bytes |-> 0])
    /\ log' = log \cup Logged({"create", "stream"}, CurMod)
    /\ pc' = "streamRequest"
    /\ UNCHANGED <<manifest, modsDir, stagingExists, call, modsData, idx, latest,
                   stream, outcome, calls, prev, fq, rt, savers>>

\* the artifact's response arrives, lines 267-272: it is piped into the writer
StreamResponds ==
    /\ pc = "streamRequest"
    /\ pc' = "streaming"
    /\ stream' = "flowing"
    /\ UNCHANGED <<fsVars, call, modsData, idx, latest, outcome, log, calls, prev,
                   fq, rt, savers>>

\* pipe: a chunk of the response is written to the file
Chunk ==
    /\ pc = "streaming" /\ stream = "flowing"
    /\ staging[latest.filename].bytes < ArtifactChunks
    /\ staging' = [staging EXCEPT ![latest.filename].bytes = @ + 1]
    /\ log' = log \cup Logged({"write"}, CurMod)
    /\ UNCHANGED <<manifest, modsDir, stagingExists, pc, call, modsData, idx, latest,
                   stream, outcome, calls, prev, fq, rt, savers>>

\* line 271: the writer emits 'error' (a write fails), the promise rejects
WriterError ==
    /\ pc = "streaming" /\ stream = "flowing"
    /\ staging[latest.filename].bytes < ArtifactChunks
    /\ Abort("TransferError")
    /\ UNCHANGED <<fsVars, call, modsData, latest, calls, prev, fq, rt, savers>>

\* the response stream emits 'error' before its end.  pipe neither ends nor
\* destroys the writer, and lines 270-271 listen to the writer only.
StreamError ==
    /\ pc = "streaming" /\ stream = "flowing"
    /\ staging[latest.filename].bytes < ArtifactChunks
    /\ stream' = "errored"
    /\ UNCHANGED <<fsVars, pc, call, modsData, idx, latest, outcome, log, calls, prev,
                   fq, rt, savers>>

\* the response ends, the writer emits 'finish' (line 270); installMod moves
\* the staged files (lines 238-243); then saveModInfo (line 103 or 149) and
\* the return of download or the next turn of update's loop
InstallMoves ==
    /\ pc = "streaming" /\ stream = "flowing"
    /\ staging[latest.filename].bytes = ArtifactChunks
    /\ modsDir' = RenameAll(modsDir, staging).mods
    /\ staging' = RenameAll(modsDir, staging).staging
    /\ IF LoadModsData(manifest).ok
       THEN /\ manifest' = SaveAfterInstall(manifest, TRUE, CurMod, latest.version_number)
            /\ NextOrReturn(log \cup Logged({"rename", "save"}, CurMod))
       ELSE /\ Abort("SyntaxError")
            /\ UNCHANGED manifest
    /\ UNCHANGED <<stagingExists, call, modsData, latest, calls, prev, fq, rt, savers>>

\* the same, but the first renameSync throws (the mods folder is not writable)
RenameFails ==
    /\ pc = "streaming" /\ stream = "flowing"
    /\ staging[latest.filename].bytes = ArtifactChunks
    /\ manifest' = SaveAfterInstall(manifest, FALSE, CurMod, latest.version_number)
    /\ Abort("InstallError")
    /\ UNCHANGED <<modsDir, stagingExists, staging, call, modsData, latest, calls, prev,
                   fq, rt, savers>>

Next ==
    \/ \E n \in DownloadNames, t \in DownloadTargets, l \in Loaders : CallDownload(n, t, l)
    \/ \E g \in UpdateTargets : CallUpdate(g)
    \/ RequestFails
    \/ SearchResponds
    \/ VersionsRespond
    \/ VersionDataResponds
    \/ StreamResponds
    \/ Chunk
    \/ WriterError
    \/ StreamError
    \/ InstallMoves
    \/ RenameFails

Init == InitFs /\ InitCaller /\ InitFq /\ InitRt /\ InitSavers

Spec == Init /\ [][Next]_vars

\* the event loop runs every callback that is ready; the caller may stop calling
ProgramStep ==
    \/ RequestFails \/ SearchResponds \/ VersionsRespond \/ VersionDataResponds
    \/ StreamResponds \/ Chunk \/ WriterError \/ StreamError \/ InstallMoves
    \/ RenameFails

FairSpec == Spec /\ WF_vars(ProgramStep)

(***************************************************************************)
(* The manifest alone: saveModInfo followed by loadModsData.               *)
(***************************************************************************)
ModNames     == {create, jei, quoted, proto}
VersionNames == {v050, v051f}

\* a caller runs saveModInfo(modName, version) on the manifest as it stands
RtSave(modName, version) ==
    /\ rt.phase = "idle"
    /\ LoadModsData(manifest).ok
    /\ manifest' = SaveModInfo(manifest, modName, version)
    /\ rt' = [phase |-> "saved", before |-> LoadModsData(manifest).val,
              modName |-> modName, version |-> version]
    /\ UNCHANGED <<modsDir, stagingExists, staging, callerVars, fq, savers>>

\* and then loadModsData()
RtLoad ==
    /\ rt.phase = "saved"
    /\ LoadModsData(manifest).ok
    /\ rt' = [phase |-> "loaded", before |-> rt.before, modName |-> rt.modName,
              version |-> rt.version, loaded |-> LoadModsData(manifest).val]
    /\ UNCHANGED <<fsVars, callerVars, fq, savers>>

RtDone ==
    /\ rt.phase = "loaded"
    /\ rt' = [phase |-> "idle"]
    /\ UNCHANGED <<fsVars, callerVars, fq, savers>>

NextManifest ==
    \/ \E n \in ModNames, v \in VersionNames : RtSave(n, v)
    \/ RtLoad
    \/ RtDone

InitManifest == InitFs /\ InitCaller /\ InitFq /\ InitRt /\ InitSavers

SpecManifest == InitManifest /\ [][NextManifest]_vars

(***************************************************************************)
(* Two processes running saveModInfo on the same manifest file.  Within a  *)
(* process the call is synchronous; between processes the read and the     *)
(* write of the file are separate system calls.                            *)
(***************************************************************************)
RaceNames == {create, jei}

WriteBackMerged(file, data) ==
    LET l == LoadModsData(file)
        RECURSIVE Merge(_, _)
        Merge(obj, i) == IF i > Len(data) THEN obj
                         ELSE Merge(DefineOwn(obj, data[i][1], data[i][2]), i + 1)
    IN  Stringify(Merge(IF l.ok THEN l.val ELSE <<>>, 1))

\* fs.writeFileSync(this.modsDataFile, JSON.stringify(modsData, null, 2))
WriteBack(file, data) == Stringify(data)

\* lines 163-164: const modsData = this.loadModsData(); modsData[modName] = version
SaverLoad(p, modName, version) ==
    /\ savers[p].pc \in {"idle", "done"}
    /\ LoadModsData(manifest).ok
    /\ savers' = [savers EXCEPT ![p] =
                    [pc |-> "loaded", modName |-> modName, version |-> version,
                     modsData |-> PutProp(LoadModsData(manifest).val, modName, version)]]
    /\ UNCHANGED <<fsVars, callerVars, fq, rt>>

\* line 165, after which saveModInfo returns
SaverWrite(p) ==
    /\ savers[p].pc = "loaded"
    /\ manifest' = WriteBack(manifest, savers[p].modsData)
    /\ savers' = [savers EXCEPT ![p].pc = "done"]
    /\ UNCHANGED <<modsDir, stagingExists, staging, callerVars, fq, rt>>

NextRace ==
    \/ \E p \in Procs, n \in RaceNames, v \in VersionNames : SaverLoad(p, n, v)
    \/ \E p \in Procs : SaverWrite(p)

InitRace == InitFs /\ InitCaller /\ InitFq /\ InitRt /\ InitSavers

SpecRace == InitRace /\ [][NextRace]_vars

(***************************************************************************)
(* The filter of getmod alone, over version lists of the registry's shape. *)
(***************************************************************************)
VersionPool ==
    { ProjectVersions("pc")[1], ProjectVersions("pc")[2], ProjectVersions("pj")[1],
      [id |-> "x1", version_number |-> v9, game_versions |-> <<v051f, g118>>,
       loaders |-> <<fabric>>, filename |-> fc1],
      [id |-> "x2", version_number |-> v051f, game_versions |-> <<g118>>,
       loaders |-> <<fabric>>, filename |-> fc2] }

VersionLists == UNION { [1..n -> VersionPool] : n \in 0..MaxVersions }

Targets == {g118, g119, v051f, v050}

\* lines 68-82 on the versions the registry returned
FilterReturn ==
    /\ fq.phase = "query"
    /\ CompatibleVersions(fq.versions, fq.target, fq.loader) # <<>>
    /\ fq' = [fq EXCEPT !.phase = "returned",
                        !.result = CompatibleVersions(fq.versions, fq.target, fq.loader)]
    /\ UNCHANGED <<fsVars, callerVars, rt, savers>>

\* line 78-80: throw when compatibleVersions.length === 0
FilterThrow ==
    /\ fq.phase = "query"
    /\ CompatibleVersions(fq.versions, fq.target, fq.loader) = <<>>
    /\ fq' = [fq EXCEPT !.phase = "threw"]
    /\ UNCHANGED <<fsVars, callerVars, rt, savers>>

NextFilter == FilterReturn \/ FilterThrow

InitFilter ==
    /\ InitFs /\ InitCaller /\ InitRt /\ InitSavers
    /\ fq \in [phase : {"query"}, versions : VersionLists, target : Targets,
               loader : Loaders, result : {<<>>}]

SpecFilter == InitFilter /\ [][NextFilter]_vars

\* the rule the specification states for one version
HyphenRule(v, target, loader) ==
    IF \E i \in DOMAIN target : target[i] = "-"
    THEN v.version_number = target
    ELSE /\ \E i \in DOMAIN v.game_versions : v.game_versions[i] = target
         /\ \E i \in DOMAIN v.loaders : v.loaders[i] = loader

(***************************************************************************)
(* C2: what getmod returns is exactly the subsequence of the registry's    *)
(* list, in the registry's order, that the hyphen rule selects: versions   *)
(* whose version_number equals the target when the target contains '-',    *)
(* otherwise versions listing the target among game_versions and the       *)
(* loader among loaders; and getmod throws only when that selection is     *)
(* empty.                                                                  *)
(***************************************************************************)
GetmodReturnsHyphenRuleSubsequence ==
    LET sel    == {j \in DOMAIN fq.versions : HyphenRule(fq.versions[j], fq.target, fq.loader)}
        nth(k) == CHOOSE j \in sel : Cardinality({i \in sel : i < j}) = k - 1
    IN  /\ fq.phase = "returned" =>
              /\ Len(fq.result) = Cardinality(sel)
              /\ \A k \in 1..Len(fq.result) : fq.result[k] = fq.versions[nth(k)]
        /\ fq.phase = "threw" => sel = {}

GetmodFilteredSomething ==
    /\ fq.phase = "returned"
    /\ Len(fq.versions) = 2
    /\ Len(fq.result) = 1
    /\ Includes(fq.target, "-")
    /\ fq.result[1] = fq.versions[2]

\* both saves have returned, and each had loaded the manifest before the other wrote
Interleaved ==
    /\ savers["p1"].pc = "done" /\ savers["p2"].pc = "done"
    /\ savers["p1"].modName # savers["p2"].modName
    /\ ~HasOwn(savers["p1"].modsData, savers["p2"].modName)
    /\ ~HasOwn(savers["p2"].modsData, savers["p1"].modName)

(***************************************************************************)
(* C9: when two saves of different mods interleave, each having loaded     *)
(* the manifest before the other wrote it, then once both have returned    *)
(* the manifest holds exactly one of the two entries: the last write wins  *)
(* and the other update is lost.                                           *)
(***************************************************************************)
InterleavedSavesLoseOneUpdate ==
    Interleaved =>
        LET m == LoadModsData(manifest) IN
        /\ m.ok
        /\ HasOwn(m.val, savers["p1"].modName) # HasOwn(m.val, savers["p2"].modName)

LostUpdateReached ==
    /\ Interleaved
    /\ ~HasOwn(LoadModsData(manifest).val, savers["p1"].modName)
    /\ HasOwn(LoadModsData(manifest).val, savers["p2"].modName)

(***************************************************************************)
(* Properties of download and update.                                      *)
(***************************************************************************)
Errors == {"NotFound", "NoCompatibleVersion", "UpstreamError", "TransferError",
           "InstallError", "SyntaxError", "TypeError"}

FullArtifact(v) == [ver |-> v.id, bytes |-> ArtifactChunks]

\* the search of the mod being resolved has no hits
ZeroHits == pc = "search" /\ SearchHits(CurMod) = <<>>

(***************************************************************************)
(* C1: when the search of a mod has zero hits, getmod (and so download)    *)
(* ends with the not-found error unless the request itself failed, and     *)
(* neither the call of download nor the step that handles the answer       *)
(* changes the mods folder, the staging directory or the manifest.         *)
(***************************************************************************)
NotFoundWritesNothing ==
    [][ /\ (pc = "idle" /\ call'.op = "download" /\ pc' = "search")
            => UNCHANGED fsVars
        /\ ZeroHits => /\ pc' = "idle"
                       /\ outcome' \in {"NotFound", "UpstreamError"}
                       /\ UNCHANGED fsVars ]_vars

NotFoundReached ==
    /\ pc = "idle" /\ outcome = "NotFound"
    /\ call.op = "download" /\ call.modName = nomod
    /\ manifest # NoFile /\ DOMAIN modsDir # {}
    /\ log = {<<"search", nomod>>}

(***************************************************************************)
(* C4: after a successful update, for every manifest entry whose recorded  *)
(* version differed from the first compatible version, the new artifact is *)
(* in the mods folder, the manifest records the new version_number, and no *)
(* file of the mods folder still holds the old version's artifact.         *)
(***************************************************************************)
UpdateReplacesOldFile ==
    (call.op = "update" /\ pc = "idle" /\ outcome = "ok") =>
        \A i \in 1..Len(modsData) :
            LET name      == modsData[i][1]
                installed == modsData[i][2]
                all       == ProjectVersions(Project(name))
                new       == CompatibleVersions(all, call.gameVersion, forge)[1]
                oldIds    == {all[j].id : j \in {k \in 1..Len(all) :
                                                    all[k].version_number = installed}}
            IN  new.version_number # installed =>
                    /\ new.filename \in DOMAIN modsDir
                    /\ modsDir[new.filename] = FullArtifact(new)
                    /\ GetProp(LoadModsData(manifest).val, name) = new.version_number
                    /\ \A f \in DOMAIN modsDir : modsDir[f].ver \notin oldIds

\* this call is an update that repeats the previous call, which succeeded
SecondUpdate == call.op = "update" /\ prev.call = call /\ prev.outcome = "ok"

(***************************************************************************)
(* C5: an update that repeats a successful update (same arguments, same    *)
(* registry answers) performs no file operation: nothing is unlinked,      *)
(* created, written, renamed or saved, and the mods folder, the staging    *)
(* directory and the manifest stay as they are at every step of it.        *)
(***************************************************************************)
SecondUpdateTouchesNoFile ==
    /\ [](SecondUpdate => \A e \in log : e[1] \notin FsKinds)
    /\ [][SecondUpdate' => UNCHANGED fsVars]_vars

SecondUpdateReached ==
    /\ SecondUpdate /\ pc = "idle" /\ outcome = "ok"
    /\ GetProp(LoadModsData(manifest).val, create) = v051f
    /\ {fc1, fc2} \subseteq DOMAIN modsDir
    /\ <<"versions", create>> \in log

(***************************************************************************)
(* C6: in download, when the install step fails the call ends with that    *)
(* error and the manifest is left as it was; the manifest is saved only in *)
(* the step in which installMod has moved the fetched artifact, complete,  *)
(* into the mods folder.                                                   *)
(***************************************************************************)
InstallFailureSkipsSave ==
    [][ call.op = "download" =>
          /\ (pc = "streaming" /\ outcome' = "InstallError")
                => (pc' = "idle" /\ manifest' = manifest /\ log' = log)
          /\ (manifest' # manifest \/ <<"save", call.modName>> \in log' \ log)
                => /\ latest.filename \in DOMAIN modsDir'
                   /\ modsDir'[latest.filename] = FullArtifact(latest)
                   /\ outcome' = "ok" ]_vars

InstallFailureReached ==
    /\ pc = "idle" /\ call.op = "download" /\ outcome = "InstallError"
    /\ ~HasOwn(LoadModsData(manifest).val, call.modName)
    /\ latest.filename \in DOMAIN staging

StreamFailureSurfaces == (stream = "errored") ~> (pc = "idle")

\* installMod has run to its end in this step
InstallStep ==
    pc = "streaming" /\ stream = "flowing" /\ pc' # "streaming" /\ outcome' \notin Errors

(***************************************************************************)
(* C10: a successful installMod moves every file of the staging directory  *)
(* into the mods folder, whatever left it there, replacing a file of the   *)
(* same name, and leaves the staging directory empty.                      *)
(***************************************************************************)
InstallMovesEveryStagedFile ==
    [][ InstallStep =>
          /\ \A f \in DOMAIN staging :
                f \in DOMAIN modsDir' /\ modsDir'[f] = staging[f]
          /\ DOMAIN staging' = {} ]_vars

LeftoverMovedReached ==
    /\ pc = "idle" /\ outcome = "ok" /\ call.op = "download"
    /\ DOMAIN staging = {}
    /\ \E f \in DOMAIN modsDir :
          /\ modsDir[f].bytes < ArtifactChunks
          /\ f # latest.filename

(***************************************************************************)
(* C3: after saveModInfo(modName, version) and then loadModsData(), the    *)
(* mapping loaded has modName -> version and every other key as it was     *)
(* before the save.                                                        *)
(***************************************************************************)
ManifestRoundTrip ==
    rt.phase = "loaded" =>
        /\ GetProp(rt.loaded, rt.modName) = rt.version
        /\ \A k \in ModNames \ {rt.modName} :
              GetProp(rt.loaded, k) = GetProp(rt.before, k)

====
